---- MODULE Spec2Model ----
(***************************************************************************)
(* Model of the tunnel relay: TunnelRegistry (registry.ts), the WebSocket  *)
(* session handler (wsHandler.ts) and the public HTTP adapter (proxy.ts).  *)
(*                                                                         *)
(* JavaScript runs every handler to completion, so each action below is    *)
(* one handler invocation: a WebSocket event, a timer callback, or one     *)
(* synchronous stretch of a public request handler. The public request     *)
(* handler suspends once before it calls forwardRequest (await readBody)   *)
(* and once while it awaits the promise forwardRequest returns; the        *)
(* continuation of a settled promise runs before any other event.          *)
(*                                                                         *)
(* Only reachable objects are state: a TunnelClient is reachable from the  *)
(* Map (remove() clears every timer whose closure captured it), and the    *)
(* locals of a request handler die with the handler.                       *)
(*                                                                         *)
(* Spec is the relay. Helpers applies the string helpers (sanitize,        *)
(* generate, extract) and the path rewrite of the path-based adapter to    *)
(* inputs drawn from bounded sets, with the relay at rest.                 *)
(***************************************************************************)
EXTENDS Integers, Sequences, FiniteSets, TLC

\* ---------------------------------------------------------------- bounds
MaxChans == 2      \* WebSocket connections that are ever accepted
MaxReqs == 2       \* public HTTP requests (each gets its own uuid)
MaxTunnels == 2    \* register frames handled (each gets a fresh tunnel id)
MaxFree == 3       \* freely chosen characters of an input string of a helper

Chans == 1..MaxChans
Reqs == 1..MaxReqs
Subs == {"a", "b"}

VARIABLES
    tunnels,    \* TunnelRegistry.tunnels: the Map's values in insertion order
    nextId,     \* the next fresh tunnel id (uuidv4 in register)
    readyState, \* ws.readyState of every channel ("NONE" = not yet accepted)
    closeCode,  \* the code the relay passed to ws.close, 0 if it never called it
    recv,       \* channels on which 'message' events can still be emitted
    handled,    \* channels whose 'close' or 'error' handler has run
    timers,     \* armed setTimeout of a request: id of the captured client, 0 = none
    pc,         \* position of each public request handler
    rsub,       \* the handler's local `subdomain`
    cur,        \* history: id made by the latest register(s) not since removed
    ev,         \* history: the handler that ran last and what it did
    frames,     \* history: request frames ws.send has transmitted, per tunnel id
    call        \* a pure helper applied on its own: its input and its result

vars == <<tunnels, nextId, readyState, closeCode, recv, handled, timers,
          pc, rsub, cur, ev, frames, call>>

\* ------------------------------------------------------- HTTP replies
\* res.status(...).json({ error, message, ... }); status 0: nothing was sent.
NoReply == [status |-> 0, error |-> "", message |-> ""]

\* An Error's message is a sequence of words. The messages registry.ts throws
\* or rejects with; the not-found message ends with the subdomain.
ErrorMessage(kind, sub) ==
    CASE kind = "notfound" -> <<"No", "tunnel", "found", "for", "subdomain:", sub>>
      [] kind = "notopen" -> <<"Tunnel", "connection", "is", "not", "open">>
      [] kind = "disconnected" -> <<"Tunnel", "disconnected">>
      [] kind = "timeout" -> <<"Request", "timed", "out", "-", "local", "server",
                               "did", "not", "respond">>

\* What ws.send or JSON.stringify may throw inside forwardRequest.
SendErrors == {<<"Invalid", "string", "length">>, <<"write", "EPIPE">>}

\* message.includes(needle)
Includes(msg, needle) ==
    \E k \in 0..(Len(msg) - Len(needle)) :
        \A j \in 1..Len(needle) : msg[k + j] = needle[j]

\* CatchReply with the 'timed out' test left out: a faulty variant the
\* properties reject.
CatchReplyNoTimeout(msg) ==
    [status |-> 502, error |-> "Bad Gateway", message |-> "Failed to proxy request"]

\* The catch block around `await registry.forwardRequest(...)`.
CatchReply(msg) ==
    IF Includes(msg, <<"timed", "out">>)
    THEN [status |-> 504, error |-> "Gateway Timeout",
          message |-> "did not respond in time"]
    ELSE IF Includes(msg, <<"disconnected">>) \/ Includes(msg, <<"not", "open">>)
    THEN [status |-> 502, error |-> "Bad Gateway",
          message |-> "The tunnel connection was lost"]
    ELSE [status |-> 502, error |-> "Bad Gateway", message |-> "Failed to proxy request"]

\* if (!client) res.status(502).json({ error: 'Tunnel Not Found', ... })
NotFoundReply ==
    [status |-> 502, error |-> "Tunnel Not Found", message |-> "No active tunnel"]

\* res.status(tunnelResponse.statusCode) followed by res.end: the local
\* server's answer (every one stands for 200 here).
ResponseReply == [status |-> 200, error |-> "", message |-> ""]

\* The reply a handler gives to its own request when it ends as `kind`
\* (a failed send replies with what was thrown: see ForwardSend).
Reply(kind, sub) ==
    CASE kind = "nolookup" -> NotFoundReply
      [] kind \in {"notfound", "notopen"} -> CatchReply(ErrorMessage(kind, sub))
      [] OTHER -> NoReply

\* The reply of the handler of a parked call that is completed as `kind`.
WokeReply(kind) ==
    CASE kind = "response" -> ResponseReply
      [] kind \in {"disconnected", "timeout"} -> CatchReply(ErrorMessage(kind, ""))
      [] OTHER -> NoReply

\* ------------------------------------------------------------ data model
\* A TunnelClient (registry.ts, interface TunnelClient); id 0 stands for undefined.
NoTunnel == [id |-> 0, subdomain |-> "", ws |-> 0, requestCount |-> 0,
             pendingRequests |-> {}]

\* What the last handler did:
\*   op, ch, sub, req  the handler, its channel, its subdomain, its request id
\*   kind              how the handler's own request or frame ended
\*   rm                the client remove() was applied to (NoTunnel: none), as it
\*                     was when remove() was entered; rmOpen: was its ws OPEN
\*   woke, wokeKind    the parked forwardRequest calls this handler completed
\*   stale             waiters it invoked whose call had already completed
\*   newId             the id of the client register() created
\*   reply, wokeReply  the HTTP reply to the handler's own request, and to the
\*                     requests of the calls it completed (NoReply: none)
NoEv == [op |-> "init", ch |-> 0, sub |-> "", req |-> 0, kind |-> "",
         rm |-> NoTunnel, rmOpen |-> FALSE,
         woke |-> {}, wokeKind |-> "", stale |-> {}, newId |-> 0,
         reply |-> NoReply, wokeReply |-> NoReply]

Event(op, ch, sub, req, kind) ==
    [NoEv EXCEPT !.op = op, !.ch = ch, !.sub = sub, !.req = req, !.kind = kind,
                 !.reply = Reply(kind, sub)]

\* No helper has been applied.
NoCall == [f |-> "none"]

\* Map iteration is in insertion order: the first of a set of entry indices,
\* or 0 when the set is empty.
First(I) == IF I = {} THEN 0 ELSE CHOOSE i \in I : \A j \in I : i <= j

Tunnel(i) == IF i = 0 THEN NoTunnel ELSE tunnels[i]

\* this.tunnels.get(subdomain)
Get(s) == First({i \in 1..Len(tunnels) : tunnels[i].subdomain = s})

\* OwnerOf without the ws comparison: a faulty variant the properties reject.
OwnerOfAnyWs(c) == First(1..Len(tunnels))

\* for (const [, client] of this.tunnels) if (client.ws === ws) ...
OwnerOf(c) == First({i \in 1..Len(tunnels) : tunnels[i].ws = c})

\* The client object a timer closure captured, if the Map still holds it.
ById(id) == First({i \in 1..Len(tunnels) : tunnels[i].id = id})

\* ----------------------------------------------------- promise settling
Parked(R) == {r \in R : pc[r] = "parked"}

\* resolve/reject: a parked call completes and its handler answers the public
\* request; on a call that has already completed it does nothing.
Resume(R) == [r \in Reqs |-> IF r \in Parked(R) THEN "done" ELSE pc[r]]

\* The handler's locals die with it.
Locals(p) == [r \in Reqs |-> IF p[r] = "done" THEN "" ELSE rsub[r]]

\* ------------------------------------------------------ registry.remove
\* remove(subdomain) applied to the Map entry at index i (0: the Map has no
\* such key and nothing happens). rs is ws.readyState of every channel when
\* remove is entered. One operator per piece of state remove touches.
RemovePending(i) == Tunnel(i).pendingRequests

\* this.tunnels.delete(subdomain)
RemoveTunnels(i) ==
    IF i = 0 THEN tunnels
    ELSE SubSeq(tunnels, 1, i - 1) \o SubSeq(tunnels, i + 1, Len(tunnels))

\* RemoveTimers without the clearTimeout: a faulty variant the properties reject.
RemoveTimersNoClear(i) == timers

\* clearTimeout(pending.timeout) for every pending request
RemoveTimers(i) == [r \in Reqs |-> IF r \in RemovePending(i) THEN 0 ELSE timers[r]]

\* pending.reject(new Error('Tunnel disconnected')) for every pending request
RemovePc(i) == Resume(RemovePending(i))

\* if (client.ws.readyState === WebSocket.OPEN) client.ws.close(1000, ...)
RemoveCloses(i, rs) == i # 0 /\ rs[Tunnel(i).ws] = "OPEN"

\* RemoveReadyState without the ws.close: a faulty variant the properties reject.
RemoveReadyStateNoClose(i, rs) == rs

RemoveReadyState(i, rs) ==
    IF RemoveCloses(i, rs) THEN [rs EXCEPT ![Tunnel(i).ws] = "CLOSING"] ELSE rs

RemoveCloseCode(i, rs) ==
    IF RemoveCloses(i, rs) THEN [closeCode EXCEPT ![Tunnel(i).ws] = 1000]
    ELSE closeCode

RemoveCur(i) == [s \in Subs |-> IF i # 0 /\ cur[s] = Tunnel(i).id THEN 0 ELSE cur[s]]

RemoveEv(e, i, rs) ==
    IF i = 0 THEN e
    ELSE [e EXCEPT !.rm = Tunnel(i),
                   !.rmOpen = (rs[Tunnel(i).ws] = "OPEN"),
                   !.woke = Parked(RemovePending(i)),
                   !.wokeKind = IF Parked(RemovePending(i)) = {} THEN ""
                                ELSE "disconnected",
                   !.wokeReply = IF Parked(RemovePending(i)) = {} THEN NoReply
                                 ELSE WokeReply("disconnected"),
                   !.stale = RemovePending(i) \ Parked(RemovePending(i))]

\* ------------------------------------------------------------------ Init
InitRelay ==
    /\ tunnels = <<>>
    /\ nextId = 1
    /\ readyState = [c \in Chans |-> "NONE"]
    /\ closeCode = [c \in Chans |-> 0]
    /\ recv = {}
    /\ handled = {}
    /\ timers = [r \in Reqs |-> 0]
    /\ pc = [r \in Reqs |-> "new"]
    /\ rsub = [r \in Reqs |-> ""]
    /\ cur = [s \in Subs |-> 0]
    /\ ev = NoEv
    /\ frames = [id \in 1..MaxTunnels |-> 0]

Init == InitRelay /\ call = NoCall

\* ------------------------------------------------- WebSocket lifecycle
\* wss.on('connection'): a new channel is accepted, open. (Channels are
\* interchangeable, so they are numbered in the order they connect.)
Connect(c) ==
    /\ readyState[c] = "NONE"
    /\ \A d \in Chans : d < c => readyState[d] # "NONE"
    /\ readyState' = [readyState EXCEPT ![c] = "OPEN"]
    /\ recv' = recv \cup {c}
    /\ ev' = Event("connect", c, "", 0, "")
    /\ UNCHANGED <<tunnels, nextId, closeCode, handled, timers, pc, rsub, cur,
                   frames, call>>

\* The peer's close frame (or the end of the socket) is seen by the ws library:
\* readyState leaves OPEN and no further message is delivered; the 'close'
\* event is emitted later. No handler of the relay runs at this point.
PeerClosing(c) ==
    /\ readyState[c] = "OPEN"
    /\ readyState' = [readyState EXCEPT ![c] = "CLOSING"]
    /\ recv' = recv \ {c}
    /\ ev' = Event("peerclosing", c, "", 0, "")
    /\ UNCHANGED <<tunnels, nextId, closeCode, handled, timers, pc, rsub, cur,
                   frames, call>>

\* registry.removeByWs(ws), called by the 'close' and 'error' handlers: remove
\* the first entry whose ws is this channel, then return. rs is readyState as
\* the ws library has set it when it emits the event.
RemoveByWs(c, rs, e) ==
    LET i == OwnerOf(c) IN
    /\ tunnels' = RemoveTunnels(i)
    /\ timers' = RemoveTimers(i)
    /\ pc' = RemovePc(i)
    /\ rsub' = Locals(RemovePc(i))
    /\ readyState' = RemoveReadyState(i, rs)
    /\ closeCode' = RemoveCloseCode(i, rs)
    /\ cur' = RemoveCur(i)
    /\ ev' = RemoveEv(e, i, rs)

\* ws.on('close'): the channel is CLOSED; clearInterval; registry.removeByWs(ws).
OnClose(c) ==
    /\ readyState[c] \in {"OPEN", "CLOSING"}
    /\ RemoveByWs(c, [readyState EXCEPT ![c] = "CLOSED"],
                  Event("close", c, "", 0, ""))
    /\ recv' = recv \ {c}
    /\ handled' = handled \cup {c}
    /\ UNCHANGED <<nextId, frames, call>>

\* ws.on('error'): the library has begun closing the channel and delivers no
\* further message; clearInterval; registry.removeByWs(ws). 'close' follows.
OnError(c) ==
    /\ readyState[c] \in {"OPEN", "CLOSING"}
    /\ c \notin handled
    /\ RemoveByWs(c, [readyState EXCEPT ![c] = "CLOSING"],
                  Event("error", c, "", 0, ""))
    /\ recv' = recv \ {c}
    /\ handled' = handled \cup {c}
    /\ UNCHANGED <<nextId, frames, call>>

\* ------------------------------------------------------ inbound frames
NewClient(s, c) ==
    [id |-> nextId, subdomain |-> s, ws |-> c, requestCount |-> 0,
     pendingRequests |-> {}]

\* RegisterTunnels without the eviction: a faulty variant the properties reject.
RegisterTunnelsNoEvict(s, c) == Append(tunnels, NewClient(s, c))

\* registry.register(subdomain, localPort, ws): the Map after the eviction of
\* the previous holder and the insertion of the new client.
RegisterTunnels(s, c) == Append(RemoveTunnels(Get(s)), NewClient(s, c))

\* ws.send of the tunnel-ready frame after register(): it goes out only if the
\* channel is still OPEN (remove() has just closed it when it held the label).
ReadyFrame(c, old) ==
    IF RemoveReadyState(old, readyState)[c] = "OPEN" THEN "tunnel-ready" ELSE "unsent"

\* handleMessage, case 'register' with the sanitized label s, on channel c.
Register(c, s) ==
    LET old == Get(s) IN
    /\ c \in recv
    /\ nextId <= MaxTunnels
    /\ tunnels' = RegisterTunnels(s, c)
    /\ nextId' = nextId + 1
    /\ timers' = RemoveTimers(old)
    /\ pc' = RemovePc(old)
    /\ rsub' = Locals(RemovePc(old))
    /\ readyState' = RemoveReadyState(old, readyState)
    /\ closeCode' = RemoveCloseCode(old, readyState)
    /\ cur' = [RemoveCur(old) EXCEPT ![s] = nextId]
    /\ ev' = [RemoveEv(Event("register", c, s, 0, ReadyFrame(c, old)), old, readyState)
                EXCEPT !.newId = nextId]
    /\ UNCHANGED <<recv, handled, frames, call>>

\* ResponseHit looking for the waiter in every entry, whatever its ws: a
\* faulty variant the properties reject.
ResponseHitAnyWs(c, x) ==
    First({i \in 1..Len(tunnels) : x \in tunnels[i].pendingRequests})

\* registry.handleResponse(ws, response): the index of the entry whose waiter
\* the response with id x completes (0: the response is dropped).
ResponseHit(c, x) ==
    LET o == OwnerOf(c) IN
    IF o # 0 /\ x \in tunnels[o].pendingRequests THEN o ELSE 0

\* handleMessage, case 'response' with data.id = x, on channel c.
Response(c, x) ==
    LET o == ResponseHit(c, x) IN
    /\ c \in recv
    /\ IF o # 0
       THEN /\ timers' = [timers EXCEPT ![x] = 0]
            /\ tunnels' = [tunnels EXCEPT ![o].pendingRequests = @ \ {x}]
            /\ pc' = Resume({x})
            /\ rsub' = Locals(Resume({x}))
            /\ ev' = [Event("response", c, "", x, "resolved") EXCEPT
                        !.woke = Parked({x}),
                        !.wokeKind = IF Parked({x}) = {} THEN "" ELSE "response",
                        !.wokeReply = IF Parked({x}) = {} THEN NoReply
                                      ELSE WokeReply("response"),
                        !.stale = {x} \ Parked({x})]
       ELSE /\ ev' = Event("response", c, "", x, "dropped")
            /\ UNCHANGED <<timers, tunnels, pc, rsub>>
    /\ UNCHANGED <<nextId, readyState, closeCode, recv, handled, cur,
                   frames, call>>

\* sendError(ws, message): the error frame goes out only on an OPEN channel.
SendError(c) == IF readyState[c] = "OPEN" THEN "error-frame" ELSE "unsent"

\* AfterBadFrame closing the channel: a faulty variant the properties reject.
AfterBadFrameCloses(c) == [readyState EXCEPT ![c] = "CLOSING"]

\* ws.readyState after the catch block of the 'message' handler, and after
\* the pong and default cases of handleMessage: none of them closes.
AfterBadFrame(c) == readyState

\* ws.on('message') with data that JSON.parse (or handleMessage) rejects:
\* the catch block logs and calls sendError(ws, 'Invalid message format').
Malformed(c) ==
    /\ c \in recv
    /\ readyState' = AfterBadFrame(c)
    /\ ev' = Event("malformed", c, "", 0, SendError(c))
    /\ UNCHANGED <<tunnels, nextId, closeCode, recv, handled, timers, pc, rsub, cur,
                   frames, call>>

\* handleMessage, default case: a frame of unknown type is logged.
UnknownType(c) ==
    /\ c \in recv
    /\ readyState' = AfterBadFrame(c)
    /\ ev' = Event("unknown", c, "", 0, "ignored")
    /\ UNCHANGED <<tunnels, nextId, closeCode, recv, handled, timers, pc, rsub, cur,
                   frames, call>>

\* handleMessage, case 'pong': nothing.
Pong(c) ==
    /\ c \in recv
    /\ readyState' = AfterBadFrame(c)
    /\ ev' = Event("pong", c, "", 0, "ignored")
    /\ UNCHANGED <<tunnels, nextId, closeCode, recv, handled, timers, pc, rsub, cur,
                   frames, call>>

\* ------------------------------------------------- public HTTP requests
\* createProxyMiddleware / createPathBasedProxy up to registry.get: no entry,
\* 502 'Tunnel Not Found'. (Requests are interchangeable, so they are numbered
\* in the order they arrive.)
LookupMiss(r, s) ==
    /\ pc[r] = "new"
    /\ \A q \in Reqs : q < r => pc[q] # "new"
    /\ Get(s) = 0
    /\ pc' = [pc EXCEPT ![r] = "done"]
    /\ ev' = Event("lookup", 0, s, r, "nolookup")
    /\ UNCHANGED <<tunnels, nextId, readyState, closeCode, recv, handled,
                   timers, rsub, cur, frames, call>>

\* The entry exists: the handler suspends in `await readBody(req)`.
LookupHit(r, s) ==
    /\ pc[r] = "new"
    /\ \A q \in Reqs : q < r => pc[q] # "new"
    /\ Get(s) # 0
    /\ rsub' = [rsub EXCEPT ![r] = s]
    /\ pc' = [pc EXCEPT ![r] = "reading"]
    /\ ev' = Event("lookup", 0, s, r, "reading")
    /\ UNCHANGED <<tunnels, nextId, readyState, closeCode, recv, handled,
                   timers, cur, frames, call>>

\* forwardRequest: this.tunnels.get(subdomain) is undefined -> throws
\* 'No tunnel found for subdomain'.
ForwardNoTunnel(r) ==
    /\ pc[r] = "reading"
    /\ Get(rsub[r]) = 0
    /\ pc' = [pc EXCEPT ![r] = "done"]
    /\ rsub' = [rsub EXCEPT ![r] = ""]
    /\ ev' = Event("forward", 0, rsub[r], r, "notfound")
    /\ UNCHANGED <<tunnels, nextId, readyState, closeCode, recv, handled,
                   timers, cur, frames, call>>

\* forwardRequest: the client's ws is not OPEN -> this.remove(subdomain);
\* throws 'Tunnel connection is not open'.
ForwardNotOpen(r) ==
    LET i == Get(rsub[r]) IN
    /\ pc[r] = "reading"
    /\ i # 0
    /\ readyState[tunnels[i].ws] # "OPEN"
    /\ tunnels' = RemoveTunnels(i)
    /\ timers' = RemoveTimers(i)
    /\ pc' = [RemovePc(i) EXCEPT ![r] = "done"]
    /\ rsub' = Locals([RemovePc(i) EXCEPT ![r] = "done"])
    /\ readyState' = RemoveReadyState(i, readyState)
    /\ closeCode' = RemoveCloseCode(i, readyState)
    /\ cur' = RemoveCur(i)
    /\ ev' = RemoveEv(Event("forward", tunnels[i].ws, rsub[r], r, "notopen"),
                      i, readyState)
    /\ UNCHANGED <<nextId, recv, handled, frames, call>>

\* ArmTimer that arms nothing: a faulty variant the properties reject.
ArmTimerNever(r, id) == timers

\* const timeout = setTimeout(() => { ... }, REQUEST_TIMEOUT), whose closure
\* captures the client (id).
ArmTimer(r, id) == [timers EXCEPT ![r] = id]

\* StoreWaiter that stores nothing, as if the frame were sent without a
\* waiter: a faulty variant the properties reject.
StoreWaiterNever(P, r) == P

\* client.pendingRequests.set(request.id, { resolve, reject, timeout })
StoreWaiter(P, r) == P \cup {r}

\* CountRequest placed before the send: a faulty variant the properties reject.
CountRequestBeforeSend(n, ok) == n + 1

\* client.requestCount++ is the statement after ws.send: it runs only when
\* the send returned (ok).
CountRequest(n, ok) == IF ok THEN n + 1 ELSE n

\* forwardRequest, the Promise executor: arm the timer, store the waiter, send
\* the frame, count the request. ok = FALSE: ws.send (or JSON.stringify) throws,
\* so the executor's exception rejects the promise, requestCount++ is skipped,
\* and neither the waiter nor the timer is undone.
ForwardSend(r, ok) ==
    LET i == Get(rsub[r]) IN
    /\ pc[r] = "reading"
    /\ i # 0
    /\ readyState[tunnels[i].ws] = "OPEN"
    /\ timers' = ArmTimer(r, tunnels[i].id)
    /\ tunnels' = [tunnels EXCEPT
                     ![i].pendingRequests = StoreWaiter(@, r),
                     ![i].requestCount = CountRequest(@, ok)]
    /\ frames' = [frames EXCEPT ![tunnels[i].id] = IF ok THEN @ + 1 ELSE @]
    /\ pc' = [pc EXCEPT ![r] = IF ok THEN "parked" ELSE "done"]
    /\ rsub' = [rsub EXCEPT ![r] = IF ok THEN @ ELSE ""]
    /\ \E m \in SendErrors :
          ev' = [Event("forward", tunnels[i].ws, rsub[r], r,
                       IF ok THEN "sent" ELSE "sendfail")
                   EXCEPT !.reply = IF ok THEN NoReply ELSE CatchReply(m)]
    /\ UNCHANGED <<nextId, readyState, closeCode, recv, handled, cur, call>>

\* The setTimeout callback of forwardRequest: delete the waiter from the
\* captured client's table and reject with 'Request timed out'.
Timeout(r) ==
    LET i == ById(timers[r]) IN
    /\ timers[r] # 0
    /\ timers' = [timers EXCEPT ![r] = 0]
    /\ tunnels' = IF i = 0 THEN tunnels
                  ELSE [tunnels EXCEPT ![i].pendingRequests = @ \ {r}]
    /\ pc' = Resume({r})
    /\ rsub' = Locals(Resume({r}))
    /\ ev' = [Event("timeout", 0, rsub[r], r, "fired") EXCEPT
                !.woke = Parked({r}),
                !.wokeKind = IF Parked({r}) = {} THEN "" ELSE "timeout",
                !.wokeReply = IF Parked({r}) = {} THEN NoReply
                              ELSE WokeReply("timeout"),
                !.stale = {r} \ Parked({r})]
    /\ UNCHANGED <<nextId, readyState, closeCode, recv, handled, cur,
                   frames, call>>

\* ------------------------------------------------------------------ Next
Next ==
    \/ \E c \in Chans : Connect(c)
    \/ \E c \in Chans : PeerClosing(c)
    \/ \E c \in Chans : OnClose(c)
    \/ \E c \in Chans : OnError(c)
    \/ \E c \in Chans, s \in Subs : Register(c, s)
    \/ \E c \in Chans, x \in Reqs : Response(c, x)
    \/ \E c \in Chans : Malformed(c)
    \/ \E c \in Chans : UnknownType(c)
    \/ \E c \in Chans : Pong(c)
    \/ \E r \in Reqs, s \in Subs : LookupMiss(r, s)
    \/ \E r \in Reqs, s \in Subs : LookupHit(r, s)
    \/ \E r \in Reqs : ForwardNoTunnel(r)
    \/ \E r \in Reqs : ForwardNotOpen(r)
    \/ \E r \in Reqs, ok \in BOOLEAN : ForwardSend(r, ok)
    \/ \E r \in Reqs : Timeout(r)

Spec == Init /\ [][Next]_vars

\* Node's event loop runs every timer that stays armed, and the body of a
\* public request that is being read ends, after which the handler calls
\* forwardRequest.
Forward(r) ==
    ForwardNoTunnel(r) \/ ForwardNotOpen(r) \/ \E ok \in BOOLEAN : ForwardSend(r, ok)

Fairness == \A r \in Reqs : WF_vars(Timeout(r)) /\ WF_vars(Forward(r))

LiveSpec == Init /\ [][Next]_vars /\ Fairness

\* =============================================================== helpers
\* The string helpers of wsHandler.ts and proxy.ts and the path rewrite of
\* createPathBasedProxy, applied on their own. A string is the sequence of its
\* characters (in URLs: of its pieces "/", "?" and the text between them).
relay == <<tunnels, nextId, readyState, closeCode, recv, handled, timers,
           pc, rsub, cur, ev, frames>>

Lower == <<"a", "b", "c", "d", "e", "f", "g", "h", "i", "j", "k", "l", "m",
           "n", "o", "p", "q", "r", "s", "t", "u", "v", "w", "x", "y", "z">>
Upper == <<"A", "B", "C", "D", "E", "F", "G", "H", "I", "J", "K", "L", "M",
           "N", "O", "P", "Q", "R", "S", "T", "U", "V", "W", "X", "Y", "Z">>
Digits == {"0", "1", "2", "3", "4", "5", "6", "7", "8", "9"}

Range(s) == {s[i] : i \in 1..Len(s)}
Rep(c, n) == [i \in 1..n |-> c]
SeqsUpTo(S, n) == UNION {[1..k -> S] : k \in 0..n}

\* ---- sanitizeSubdomain
\* .toLowerCase()
ToLowerCase(s) ==
    [i \in 1..Len(s) |->
        IF s[i] \in Range(Upper) THEN Lower[CHOOSE k \in 1..Len(Upper) : Upper[k] = s[i]]
        ELSE s[i]]

\* .replace(/[^a-z0-9-]/g, '-')
ReplaceUnsafe(s) ==
    [i \in 1..Len(s) |-> IF s[i] \in Range(Lower) \cup Digits \cup {"-"} THEN s[i] ELSE "-"]

\* .replace(/-+/g, '-')
RECURSIVE CollapseDashes(_)
CollapseDashes(s) ==
    IF Len(s) < 2 THEN s
    ELSE IF s[1] = "-" /\ s[2] = "-" THEN CollapseDashes(Tail(s))
    ELSE <<s[1]>> \o CollapseDashes(Tail(s))

\* .replace(/^-|-$/g, '')
TrimDashes(s) ==
    SubSeq(s, IF Len(s) > 0 /\ s[1] = "-" THEN 2 ELSE 1,
              IF Len(s) > 0 /\ s[Len(s)] = "-" THEN Len(s) - 1 ELSE Len(s))

\* .substring(0, 63)
MaxLabelLen == 63
Substring(s, n) == SubSeq(s, 1, IF Len(s) < n THEN Len(s) ELSE n)

SanitizeSubdomain(input) ==
    Substring(TrimDashes(CollapseDashes(ReplaceUnsafe(ToLowerCase(input)))), MaxLabelLen)

\* ---- generateSubdomain: `${adj}-${noun}-${uuidv4().substring(0, 4)}`
\* (two of the twelve adjectives and nouns, two of the hex prefixes)
Adjectives == {<<"s", "w", "i", "f", "t">>, <<"b", "o", "l", "d">>}
Nouns == {<<"a", "p", "p">>, <<"c", "o", "d", "e">>}
HexPrefixes == {<<"0", "a", "1", "f">>, <<"9", "9", "e", "0">>}
GenerateSubdomain(adj, noun, id) == adj \o <<"-">> \o noun \o <<"-">> \o id

\* The subdomain field of a register frame, the x-subdomain header: up to
\* MaxFree characters (a letter, a capital, a digit, a dash, a dot), alone or
\* after a long run of letters that brings the length to the limit.
RawChars == {"a", "B", "0", "-", "."}
RawLabels ==
    {Rep("a", k) \o t : k \in {0, MaxLabelLen - 2, MaxLabelLen - 1},
                        t \in SeqsUpTo(RawChars, MaxFree)}

\* (message.subdomain as string) || requestedSubdomain || generateSubdomain():
\* an absent field and the empty string are both falsy.
LabelSource(subdomain, hint, generated) ==
    IF subdomain # <<>> THEN subdomain ELSE IF hint # <<>> THEN hint ELSE generated

\* ---- extractSubdomain
\* host.split(':')[0]
StripPort(host) ==
    LET C == {i \in 1..Len(host) : host[i] = ":"} IN
    IF C = {} THEN host ELSE SubSeq(host, 1, First(C) - 1)

\* s.endsWith(suffix)
EndsWith(s, suffix) ==
    /\ Len(suffix) <= Len(s)
    /\ SubSeq(s, Len(s) - Len(suffix) + 1, Len(s)) = suffix

Null == [null |-> TRUE, val |-> <<>>]
Some(v) == [null |-> FALSE, val |-> v]

\* ExtractSubdomain without the test for nested subdomains: a faulty variant
\* the properties reject.
ExtractSubdomainNested(host, domain) ==
    LET h == StripPort(host)
        subdomain == SubSeq(h, 1, Len(h) - (Len(domain) + 1))
    IN IF ~EndsWith(h, <<".">> \o domain) THEN Null
       ELSE IF subdomain = <<>> THEN Null
       ELSE Some(subdomain)

ExtractSubdomain(host, domain) ==
    LET h == StripPort(host)
        subdomain == SubSeq(h, 1, Len(h) - (Len(domain) + 1))
    IN IF ~EndsWith(h, <<".">> \o domain) THEN Null
       ELSE IF subdomain = <<>> \/ "." \in Range(subdomain) THEN Null
       ELSE Some(subdomain)

Root == <<"r", "o", "o", "t">>
SubRoot == <<"s", "u", "b", ".", "r", "o", "o", "t">>

\* Host headers: up to MaxFree characters, then nothing, the root domain, the
\* root domain after a dot, or a cut-off root domain; then perhaps a port.
Hosts ==
    {SubRoot} \cup
    {p \o m \o q : p \in SeqsUpTo({"a", "b", ".", ":"}, MaxFree),
                   m \in {<<>>, Root, <<".">> \o Root, <<".", "r", "o", "o">>},
                   q \in {<<>>, <<":">>, <<":", "8", "0">>}}

\* ---- the routes of server.ts and the path rewrite of createPathBasedProxy
\* A public URL is /t/{sub}, then "/" and {rest} unless rest is empty, then
\* the query; rest and query are sequences of pieces. express is the major
\* version of the installed router, which decides how '/t/:subdomain/*path'
\* is read: 5, a wildcard named path whose match is kept in req.params.path;
\* 4, an unnamed wildcard, kept in req.params[0], followed by the text "path".
PathPieces == {"api", "x", "/", "path"}
Queries == {<<>>, <<"?", "y=1">>}
Express == {4, 5}

\* app.all('/t/:subdomain/*path', ...); app.all('/t/:subdomain', ...): does a
\* route of createPathBasedProxy match, and what is req.params[0] (Null:
\* undefined).
Route(rest, express) ==
    IF rest = <<>> THEN [matched |-> TRUE, p0 |-> Null]
    ELSE IF express = 5 THEN [matched |-> TRUE, p0 |-> Null]
    ELSE IF EndsWith(rest, <<"path">>)
         THEN [matched |-> TRUE, p0 |-> Some(SubSeq(rest, 1, Len(rest) - 1))]
    ELSE IF EndsWith(rest, <<"path", "/">>)
         THEN [matched |-> TRUE, p0 |-> Some(SubSeq(rest, 1, Len(rest) - 2))]
    ELSE [matched |-> FALSE, p0 |-> Null]

\* actualPath = req.params[0] ? `/${req.params[0]}` : '/'
ActualPath(p0) == IF p0.null \/ p0.val = <<>> THEN <<"/">> ELSE <<"/">> \o p0.val

\* queryString = req.url.includes('?') ? req.url.substring(req.url.indexOf('?')) : ''
QueryString(url) ==
    LET Q == {i \in 1..Len(url) : url[i] = "?"} IN
    IF Q = {} THEN <<>> ELSE SubSeq(url, First(Q), Len(url))

Url(sub, rest, query) ==
    <<"/", "t", "/", sub>> \o (IF rest = <<>> THEN <<>> ELSE <<"/">> \o rest) \o query

\* ---- the calls
SanitizeCalls == {[f |-> "sanitize", input |-> x, n |-> 0] : x \in RawLabels}

LabelCalls ==
    {[f |-> "label", subdomain |-> x, hint |-> <<>>, generated |-> <<>>, n |-> 0] :
        x \in RawLabels \ {<<>>}}
    \cup
    {[f |-> "label", subdomain |-> <<>>, hint |-> h,
      generated |-> GenerateSubdomain(a, b, id), n |-> 0] :
        h \in SeqsUpTo(RawChars, 1), a \in Adjectives, b \in Nouns, id \in HexPrefixes}

ExtractCalls == {[f |-> "extract", host |-> h, domain |-> Root, n |-> 0] : h \in Hosts}

PathCalls ==
    {[f |-> "path", sub |-> "a", rest |-> r, query |-> q, express |-> e, n |-> 0] :
        r \in SeqsUpTo(PathPieces, MaxFree), q \in Queries, e \in Express}

HelpersInit ==
    /\ InitRelay
    /\ call \in SanitizeCalls \cup LabelCalls \cup ExtractCalls \cup PathCalls

\* sanitizeSubdomain(input)
SanitizeOnce ==
    /\ call.f = "sanitize" /\ call.n = 0
    /\ call' = [f |-> "sanitize", input |-> call.input, n |-> 1,
                out |-> SanitizeSubdomain(call.input)]
    /\ UNCHANGED relay

\* sanitizeSubdomain applied to its own result
SanitizeAgain ==
    /\ call.f = "sanitize" /\ call.n = 1
    /\ call' = [call EXCEPT !.n = 2] @@ [again |-> SanitizeSubdomain(call.out)]
    /\ UNCHANGED relay

\* handleMessage, case 'register': the label passed to registry.register,
\* which makes it the key of the Map.
RegisterLabel ==
    /\ call.f = "label" /\ call.n = 0
    /\ call' = [call EXCEPT !.n = 1] @@
               [key |-> SanitizeSubdomain(
                            LabelSource(call.subdomain, call.hint, call.generated))]
    /\ UNCHANGED relay

\* createProxyMiddleware up to the test of the subdomain: next() on null,
\* otherwise on to registry.get.
ExtractHost ==
    /\ call.f = "extract" /\ call.n = 0
    /\ call' = [call EXCEPT !.n = 1] @@
               [out |-> ExtractSubdomain(call.host, call.domain),
                then |-> IF ExtractSubdomain(call.host, call.domain).null
                         THEN "next" ELSE "get"]
    /\ UNCHANGED relay

\* createPathBasedProxy, when a route leads to it and registry.get finds the
\* client: the path field of the TunnelRequest it builds.
PathRequest ==
    /\ call.f = "path" /\ call.n = 0
    /\ call' = [call EXCEPT !.n = 1] @@
               [routed |-> Route(call.rest, call.express).matched,
                path |-> IF Route(call.rest, call.express).matched
                         THEN ActualPath(Route(call.rest, call.express).p0)
                              \o QueryString(Url(call.sub, call.rest, call.query))
                         ELSE <<>>]
    /\ UNCHANGED relay

HelpersNext ==
    \/ SanitizeOnce
    \/ SanitizeAgain
    \/ RegisterLabel
    \/ ExtractHost
    \/ PathRequest

Helpers == HelpersInit /\ [][HelpersNext]_vars

\* ================================================================ claims
InMap == 1..Len(tunnels)

\* The requests that have a waiter in some pending table of the Map.
Waiting == UNION {tunnels[i].pendingRequests : i \in InMap}

Removed == ev.rm.id # 0

\* The removed client is gone from the Map and none of its waiters is left.
RemovedIsGone ==
    /\ ById(ev.rm.id) = 0
    /\ ev.op # "register" => Get(ev.rm.subdomain) = 0
    /\ Waiting \cap ev.rm.pendingRequests = {}
    /\ \A r \in ev.rm.pendingRequests : timers[r] = 0

\* Its channel was closed by the relay with code 1000 if it was still open.
RemovedIsClosed ==
    /\ readyState[ev.rm.ws] # "OPEN"
    /\ ev.rmOpen => closeCode[ev.rm.ws] = 1000

\* Every waiter of its pending table was a parked call, completed by this
\* handler with 'Tunnel disconnected'.
RemovedWaitersFailed ==
    /\ ev.rm.pendingRequests = ev.woke
    /\ ev.woke # {} => ev.wokeKind = "disconnected"
    /\ ev.stale = {}

\* C1: whenever remove() has run on a tunnel, every waiter that was in its
\* pending table at entry has been completed exactly once with 'Tunnel
\* disconnected' and its timer cancelled, the channel was closed with code
\* 1000 if it was open, and the Map holds neither the tunnel nor its waiters.
C1_RemoveContract ==
    Removed => RemovedWaitersFailed /\ RemovedIsClosed /\ RemovedIsGone

\* C2: when the close or error handler of a channel has run, no call is left
\* parked on any Map entry whose ws is that channel.
C2_CloseFailsAllWaiters ==
    ev.op \in {"close", "error"} =>
        \A i \in InMap : tunnels[i].ws = ev.ch => Parked(tunnels[i].pendingRequests) = {}

\* C3: after register() on an occupied subdomain the previous channel is
\* closed (by the relay with code 1000 if it was open), all waiters of the
\* previous tunnel are completed with 'Tunnel disconnected', and Get returns
\* the new entry: fresh id, requestCount 0, empty pending table, the new ws.
C3_ReRegisterEvicts ==
    (ev.op = "register" /\ Removed) =>
        /\ RemovedWaitersFailed
        /\ RemovedIsClosed
        /\ ById(ev.rm.id) = 0
        /\ ev.newId # ev.rm.id
        /\ Tunnel(Get(ev.sub)) =
             [id |-> ev.newId, subdomain |-> ev.sub, ws |-> ev.ch,
              requestCount |-> 0, pendingRequests |-> {}]

\* What a response frame on channel c leaves alone: every entry of another
\* channel, with the timers and the calls of its waiters.
OthersUntouched(c) ==
    \A i \in InMap : tunnels[i].ws # c =>
        /\ tunnels'[i] = tunnels[i]
        /\ \A r \in tunnels[i].pendingRequests :
              timers'[r] = timers[r] /\ pc'[r] = pc[r]

\* C4: a response frame handled on channel c completes or removes a waiter
\* only in a tunnel whose ws is c, and when no Map entry has ws = c it
\* changes nothing.
C4_ResponseOnlyFromOwner ==
    [][\A c \in Chans :
        (ev'.op = "response" /\ ev'.ch = c) =>
            /\ OthersUntouched(c)
            /\ ev'.woke \subseteq
                 UNION {tunnels[i].pendingRequests : i \in {j \in InMap : tunnels[j].ws = c}}
            /\ (\A i \in InMap : tunnels[i].ws # c) =>
                 UNCHANGED <<tunnels, timers, pc, rsub>>]_vars

\* C4 witness: a channel the relay evicted (closed with 1000) sent a response
\* for an id that is parked on the tunnel of another channel; it was dropped.
C4_Witness ==
    /\ ev.op = "response" /\ ev.kind = "dropped"
    /\ closeCode[ev.ch] = 1000
    /\ pc[ev.req] = "parked"
    /\ \E i \in InMap : tunnels[i].ws # ev.ch /\ ev.req \in tunnels[i].pendingRequests

\* C5: a forwardRequest call that has completed has no waiter in any pending
\* table.
C5_CompletedNotPending ==
    \A r \in Reqs : pc[r] = "done" => r \notin Waiting

\* C6: when the timer of a request fires while its waiter is in the pending
\* table, the waiter is removed and the caller fails with 'Request timed out'.
C6_TimeoutFailsCaller ==
    ev.op = "timeout" =>
        /\ ev.req \notin Waiting
        /\ ev.woke = {ev.req}
        /\ ev.wokeKind = "timeout"

\* C7: forwardRequest on a tunnel whose ws is not OPEN removes the tunnel,
\* fails its pending waiters with 'Tunnel disconnected', and throws 'not open'
\* without storing a waiter, arming a timer or sending a frame.
C7_ForwardNotOpen ==
    (ev.op = "forward" /\ ev.kind = "notopen") =>
        /\ Removed /\ ev.rm.subdomain = ev.sub
        /\ RemovedIsGone
        /\ RemovedWaitersFailed
        /\ ev.req \notin Waiting \cup ev.rm.pendingRequests
        /\ timers[ev.req] = 0
        /\ pc[ev.req] = "done"

\* C8: when the send throws inside forwardRequest, the waiter stored for the
\* request is removed again and its timer cancelled.
C8_SendFailureCleansUp ==
    (ev.op = "forward" /\ ev.kind = "sendfail") =>
        ev.req \notin Waiting /\ timers[ev.req] = 0

\* C9: once the close or error handler of a channel has run, no Map entry
\* references that channel.
C9_NoEntryOnClosedChannel ==
    \A i \in InMap : tunnels[i].ws \notin handled

\* C10: the Map has at most one entry per subdomain, and Get(s) is the entry
\* made by the latest register(s) that has not been removed since.
C10_OneEntryPerSubdomain ==
    /\ \A i, j \in InMap : tunnels[i].subdomain = tunnels[j].subdomain => i = j
    /\ \A s \in Subs : Tunnel(Get(s)).id = cur[s]

\* C10 witness: a register on another channel has evicted the previous holder
\* of its subdomain, and Get returns the new entry.
C10_Witness ==
    /\ ev.op = "register" /\ Removed
    /\ ev.rm.ws # ev.ch
    /\ Tunnel(Get(ev.sub)).id = ev.newId

\* The entry of the tunnel with index i before a step, after the step (0: gone).
Same(i) == First({j \in 1..Len(tunnels') : tunnels'[j].id = tunnels[i].id})

\* C11: requestCount of every registered tunnel equals the number of request
\* frames transmitted on it since its registration; it never decreases; and a
\* forwardRequest call that fails before or during the send does not change it.
C11_RequestCountIsFramesSent ==
    /\ [](\A i \in InMap : tunnels[i].requestCount = frames[tunnels[i].id])
    /\ [][\A i \in InMap : Same(i) # 0 =>
            /\ tunnels'[Same(i)].requestCount >= tunnels[i].requestCount
            /\ (ev'.op = "forward" /\ ev'.kind # "sent") =>
                   tunnels'[Same(i)].requestCount = tunnels[i].requestCount
            /\ (ev'.op = "forward" /\ ev'.kind = "sent" /\ tunnels[i].subdomain = ev'.sub) =>
                   tunnels'[Same(i)].requestCount = tunnels[i].requestCount + 1]_vars

\* A send failed on a tunnel that had already transmitted one frame.
C11_Witness ==
    /\ ev.op = "forward" /\ ev.kind = "sendfail"
    /\ Tunnel(Get(ev.sub)).requestCount = 1
    /\ frames[Tunnel(Get(ev.sub)).id] = 1

\* C12: every register frame handled on a channel registers the label for that
\* channel and is answered by a tunnel-ready frame delivered on that channel,
\* carrying the label and the id of the entry get(label) now returns, also
\* when the label was held by another channel or by the registering channel.
C12_RegisterAnswersReady ==
    ev.op = "register" =>
        /\ Tunnel(Get(ev.sub)).ws = ev.ch
        /\ Tunnel(Get(ev.sub)).id = ev.newId
        /\ ev.kind = "tunnel-ready"

\* The forwardRequest calls that failed in the last handler: the handler's own
\* call, and the parked calls it rejected.
OwnCallFailed == ev.op = "forward" /\ ev.kind \in {"notfound", "notopen", "sendfail"}
WokenCallsFailed == ev.woke # {} /\ ev.wokeKind \in {"timeout", "disconnected"}

\* C13: a timed-out call is answered 504 'Gateway Timeout'; a call that ended
\* as disconnected or not-open, or any other failed call, 502 'Bad Gateway';
\* no failed call is answered with a 2xx status or left unanswered.
C13_FailureStatus ==
    /\ (ev.woke # {} /\ ev.wokeKind = "timeout") =>
           ev.wokeReply.status = 504 /\ ev.wokeReply.error = "Gateway Timeout"
    /\ (ev.woke # {} /\ ev.wokeKind = "disconnected") =>
           ev.wokeReply.status = 502 /\ ev.wokeReply.error = "Bad Gateway"
    /\ (ev.op = "forward" /\ ev.kind \in {"notopen", "sendfail"}) =>
           ev.reply.status = 502 /\ ev.reply.error = "Bad Gateway"
    /\ OwnCallFailed => ev.reply.status \in {502, 504} /\ pc[ev.req] = "done"
    /\ WokenCallsFailed =>
           ev.wokeReply.status \in {502, 504} /\ \A r \in ev.woke : pc[r] = "done"

\* One handler both failed its own call (channel not open) and, through
\* remove(), a parked call of the same tunnel.
C13_Witness ==
    /\ ev.op = "forward" /\ ev.kind = "notopen" /\ ev.reply.status = 502
    /\ ev.woke # {} /\ ev.wokeKind = "disconnected" /\ ev.wokeReply.status = 502

\* C14: a public request that fails because the registry has no entry for its
\* subdomain, at the adapter's lookup or at forwardRequest after the body was
\* read, is answered 502 with error 'Tunnel Not Found'.
C14_NotFoundReply ==
    ((ev.op = "lookup" /\ ev.kind = "nolookup") \/ (ev.op = "forward" /\ ev.kind = "notfound")) =>
        ev.reply.status = 502 /\ ev.reply.error = "Tunnel Not Found"

\* C15: a response frame whose id matches no waiter in the pending table of a
\* tunnel of the sending channel is dropped: the Map, every pending table,
\* every requestCount, every timer and every channel stay as they were, and
\* no forwardRequest call is completed.
C15_UnmatchedResponseDropped ==
    [][\A c \in Chans, x \in Reqs :
        (/\ ev'.op = "response" /\ ev'.ch = c /\ ev'.req = x
         /\ \A i \in InMap : tunnels[i].ws = c => x \notin tunnels[i].pendingRequests) =>
            /\ UNCHANGED <<tunnels, timers, readyState, closeCode, pc, rsub>>
            /\ ev'.woke = {} /\ ev'.stale = {} /\ ev'.wokeReply = NoReply]_vars

\* A response with an unknown id arrived on a channel whose tunnel has another
\* request pending, while the id it names is pending on another channel's tunnel.
C15_Witness ==
    /\ ev.op = "response" /\ ev.kind = "dropped"
    /\ OwnerOf(ev.ch) # 0
    /\ Tunnel(OwnerOf(ev.ch)).pendingRequests # {}
    /\ \E i \in InMap : tunnels[i].ws # ev.ch /\ ev.req \in tunnels[i].pendingRequests

\* C16: sanitizeSubdomain is idempotent, also for inputs longer than 63
\* characters, which are cut after the dashes have been trimmed.
C16_SanitizeIdempotent ==
    (call.f = "sanitize" /\ call.n = 2) => call.again = call.out

\* The label grammar: 1 to 63 characters of [a-z0-9-], no dash at either end,
\* no two dashes in a row (and so no dot).
IsLabel(l) ==
    /\ Len(l) \in 1..MaxLabelLen
    /\ Range(l) \subseteq Range(Lower) \cup Digits \cup {"-"}
    /\ l[1] # "-" /\ l[Len(l)] # "-"
    /\ \A i \in 1..(Len(l) - 1) : ~(l[i] = "-" /\ l[i + 1] = "-")

\* C17: the key under which a register frame registers its tunnel satisfies
\* the label grammar, whatever the frame's subdomain field and the header hint.
C17_KeyIsLabel ==
    (call.f = "label" /\ call.n = 1) => IsLabel(call.key)

\* C18: the path-based request /t/{sub}/{rest}?query is forwarded with the
\* path '/' + rest + query ('/' + query when rest is empty).
C18_PathRewrite ==
    (call.f = "path" /\ call.n = 1) =>
        call.routed /\ call.path = <<"/">> \o call.rest \o call.query

\* Is p the subdomain of host h under the root domain d.
IsSubdomainOf(p, h, d) == p # <<>> /\ "." \notin Range(p) /\ h = p \o <<".">> \o d

\* C19: extractSubdomain strips the port and returns what precedes
\* '.' + rootDomain when the host ends with it and that prefix is non-empty
\* and has no dot, otherwise null; 'sub.root' gives 'sub', 'root' and
\* 'a.b.root' give null; on null the host-based adapter calls next() and
\* never reaches the registry.
C19_Extract ==
    (call.f = "extract" /\ call.n = 1) =>
        LET h == StripPort(call.host) IN
        /\ ~call.out.null =>
              IsSubdomainOf(call.out.val, h, call.domain) /\ call.then = "get"
        /\ call.out.null =>
              /\ \A k \in 0..Len(h) : ~IsSubdomainOf(SubSeq(h, 1, k), h, call.domain)
              /\ call.out.val = <<>>
              /\ call.then = "next"
        /\ call.host = SubRoot => call.out = Some(<<"s", "u", "b">>)
        /\ call.host = Root => call.out = Null
        /\ call.host = <<"a", ".", "b", ".">> \o Root => call.out = Null

\* A host with a port whose subdomain was found.
C19_Witness ==
    /\ call.f = "extract" /\ call.n = 1
    /\ call.host = <<"a", "b", ".">> \o Root \o <<":", "8", "0">>
    /\ call.out = Some(<<"a", "b">>)
    /\ call.then = "get"

\* C20: whenever the request frame of a forwardRequest call has been sent and
\* the call has not completed, the pending table of the tunnel it was sent on
\* holds a waiter under the request's id, with its timer armed; so no response
\* can arrive for a sent request that has no waiter.
C20_SentHasWaiter ==
    \A r \in Reqs : pc[r] = "parked" =>
        /\ timers[r] # 0
        /\ ById(timers[r]) # 0
        /\ r \in Tunnel(ById(timers[r])).pendingRequests
        /\ Tunnel(ById(timers[r])).subdomain = rsub[r]

\* A frame has just been sent while the frame of another request is still
\* unanswered on the same tunnel.
C20_Witness ==
    /\ ev.op = "forward" /\ ev.kind = "sent"
    /\ \A r \in Reqs : pc[r] = "parked"
    /\ Tunnel(Get(ev.sub)).pendingRequests = Reqs

\* The call of request r has completed and nothing is left of its waiter.
Settled(r) == pc[r] = "done" /\ timers[r] = 0 /\ r \notin Waiting

\* C21: a forwardRequest call is completed at most once. A handler that
\* completes a call (with the response, the timeout or the disconnection, one
\* kind per handler) completes a call that was still awaiting, and leaves its
\* timer cleared and its waiter out of every pending table; from then on the
\* timer is never armed, the waiter never stored, and no response, timeout or
\* removal invokes or completes it again.
C21_CompletedOnce ==
    [][/\ ev'.wokeKind \in {"", "response", "timeout", "disconnected"}
       /\ (ev'.wokeKind = "") = (ev'.woke = {})
       /\ \A r \in Reqs :
            /\ r \in ev'.woke =>
                  /\ pc[r] = "parked" /\ pc'[r] = "done"
                  /\ timers'[r] = 0
                  /\ \A i \in 1..Len(tunnels') : r \notin tunnels'[i].pendingRequests
            /\ Settled(r) =>
                  /\ pc'[r] = "done" /\ timers'[r] = 0
                  /\ \A i \in 1..Len(tunnels') : r \notin tunnels'[i].pendingRequests
                  /\ r \notin ev'.woke \cup ev'.stale]_vars

\* A response arrives for a request whose call has already been completed,
\* on the tunnel that carried it, and is dropped.
C21_Witness ==
    /\ ev.op = "response" /\ ev.kind = "dropped"
    /\ Settled(ev.req)
    /\ OwnerOf(ev.ch) # 0
    /\ Tunnel(OwnerOf(ev.ch)).requestCount = 1
    /\ \A r \in Reqs \ {ev.req} : pc[r] = "new"

Ids(t) == {t[i].id : i \in 1..Len(t)}

\* C22: once remove() has returned for a tunnel (called directly, through
\* removeByWs or by an evicting register), the tunnel never is in the Map
\* again, so no waiter is stored in its table, and no request frame is sent on
\* its channel: the channel is not OPEN and never becomes OPEN again, a waiter
\* is only ever stored, and a frame only ever sent, by a forwardRequest that
\* finds the entry in the Map with its channel OPEN, also when the request
\* looked the tunnel up before the removal.
C22_NothingOnRemovedTunnel ==
    [][/\ ev'.rm.id # 0 =>
            /\ ev'.rm.id \in Ids(tunnels) /\ ev'.rm.id \notin Ids(tunnels')
            /\ readyState'[ev'.rm.ws] # "OPEN"
       /\ \A c \in Chans : readyState[c] \notin {"NONE", "OPEN"} => readyState'[c] # "OPEN"
       /\ Ids(tunnels') \subseteq Ids(tunnels) \cup {nextId}
       /\ nextId' >= nextId /\ \A id \in Ids(tunnels') : id < nextId'
       /\ (ev'.op = "forward" /\ ev'.kind \in {"sent", "sendfail"}) =>
            /\ readyState[ev'.ch] = "OPEN" /\ readyState'[ev'.ch] = "OPEN"
            /\ ev'.rm.id = 0
            /\ \E i \in InMap : /\ tunnels[i].ws = ev'.ch
                                /\ tunnels[i].subdomain = ev'.sub
                                /\ tunnels[i].id = timers'[ev'.req]
                                /\ tunnels[i].id \in Ids(tunnels')
       /\ \A j \in 1..Len(tunnels') :
            tunnels'[j].pendingRequests \subseteq
                UNION {tunnels[i].pendingRequests : i \in {k \in InMap : tunnels[k].id = tunnels'[j].id}}
                \cup (IF ev'.op = "forward" /\ ev'.kind \in {"sent", "sendfail"}
                         /\ tunnels'[j].id = timers'[ev'.req]
                      THEN {ev'.req} ELSE {})]_vars

\* A request looked its tunnel up, the tunnel was removed while the body was
\* read, and forwardRequest found no entry: no waiter, no timer, no frame.
C22_Witness ==
    /\ ev.op = "forward" /\ ev.kind = "notfound"
    /\ \E c \in Chans : readyState[c] = "CLOSING" /\ closeCode[c] = 1000
    /\ ev.req \notin Waiting /\ timers[ev.req] = 0
    /\ \A i \in InMap : tunnels[i].requestCount = 0

\* C23: a response frame with id x, arriving on the channel of a tunnel whose
\* pending table holds a waiter for x, completes the call of x, and only it,
\* with that response, and leaves every other waiter of the tunnel in the
\* table with its timer armed and its call awaiting.
C23_ResponseById ==
    [][\A c \in Chans, x \in Reqs, i \in InMap :
        (/\ ev'.op = "response" /\ ev'.ch = c /\ ev'.req = x
         /\ tunnels[i].ws = c /\ x \in tunnels[i].pendingRequests) =>
            /\ ev'.woke = {x} /\ ev'.wokeKind = "response"
            /\ ev'.wokeReply = ResponseReply
            /\ pc[x] = "parked" /\ pc'[x] = "done"
            /\ Same(i) # 0
            /\ tunnels'[Same(i)].pendingRequests = tunnels[i].pendingRequests \ {x}
            /\ \A r \in tunnels[i].pendingRequests \ {x} :
                  timers'[r] = timers[r] /\ timers[r] # 0 /\ pc'[r] = pc[r]]_vars

\* C24: a frame that is not valid JSON, a frame of unknown type and a pong
\* frame leave the connection as it is (not closed, still receiving) and
\* change neither the Map nor any pending table, requestCount, timer or
\* request handler; only for the malformed frame something may be sent on
\* the channel, and that is one error frame.
C24_BadFrameIgnored ==
    [][ev'.op \in {"malformed", "unknown", "pong"} =>
        /\ UNCHANGED <<tunnels, timers, pc, rsub, readyState, closeCode, recv, handled,
                       nextId, frames>>
        /\ ev'.ch \in recv' /\ ev'.ch \notin handled'
        /\ ev'.woke = {} /\ ev'.stale = {} /\ ev'.rm = NoTunnel
        /\ ev'.kind = IF ev'.op = "malformed" /\ readyState[ev'.ch] = "OPEN"
                      THEN "error-frame"
                      ELSE IF ev'.op = "malformed" THEN "unsent" ELSE "ignored"]_vars

\* A malformed frame was answered with an error frame on a channel whose
\* tunnel has a request waiting; the channel is still open.
C24_Witness ==
    /\ ev.op = "malformed" /\ ev.kind = "error-frame"
    /\ readyState[ev.ch] = "OPEN"
    /\ OwnerOf(ev.ch) # 0
    /\ Parked(Tunnel(OwnerOf(ev.ch)).pendingRequests) # {}

\* C26: in every reachable state a channel is the channel of at most one
\* registry entry, also after it has sent several register frames with
\* different subdomains.
C26_OneEntryPerChannel ==
    \A i, j \in InMap : tunnels[i].ws = tunnels[j].ws => i = j

\* C25: every forwardRequest call that is awaiting eventually completes, every
\* public request the adapter has taken on is eventually answered, and an
\* answered request is never answered again, whatever the tunnel client does.
C25_EveryCallCompletes ==
    /\ \A r \in Reqs : (pc[r] \in {"reading", "parked"}) ~> (pc[r] = "done")
    /\ [][\A r \in Reqs : pc[r] = "done" => pc'[r] = "done" /\ r \notin ev'.woke]_vars

\* The timer completed a call that neither a response nor the close of its
\* channel had completed: the channel is closed and its handler has run, but
\* the entry is still in the Map.
C25_Witness ==
    /\ ev.op = "timeout" /\ ev.woke = {ev.req} /\ pc[ev.req] = "done"
    /\ \E i \in InMap : tunnels[i].ws \in handled /\ tunnels[i].subdomain = ev.sub
====
